---- MODULE Spec2Model ----
(***************************************************************************)
(* gin-health: a Gin middleware over gocraft/health.                       *)
(*                                                                         *)
(* The repository holds two copies of package ghealth:                     *)
(*   src/ghealth.go        Health only stores the stream in the context;   *)
(*   src/unnamed/part_000  Health also recovers panics of the handlers     *)
(*                         behind it.                                      *)
(* The model runs the two copies side by side on the same inputs: every    *)
(* variable is indexed by the copy ("ghealth", "part_000"), and every      *)
(* action applies to each copy the operator translated from that copy's    *)
(* code (the operators of part_000 carry the suffix R).                    *)
(***************************************************************************)
EXTENDS Integers, Sequences, FiniteSets, TLC

VARIABLES
    phase,     \* "init" before NewStream is called, "serving" once it returned
    args,      \* the arguments NewStream was called with, and the dial outcome
    stream,    \* stream[v]: the *health.Stream object: its sinks, the events emitted on it
    io,        \* io[v]: what NewStream did besides: NewStatsDSink calls, StartServer calls, stdout
    listener,  \* listener[v]: the HTTP listener of the JSON polling sink
    rq         \* rq[v][r]: request r: its gin.Context and where its handler chain stands

vars == <<phase, args, stream, io, listener, rq>>

\* ------------------------------------------------------------------ bounds
MaxReq == 2          \* requests in flight
MaxTime == 1         \* time.Now() reads a value in 0..MaxTime

Reqs == 1..MaxReq
Times == 0..MaxTime

\* ------------------------------------------------------------------ inputs
Plain == "ghealth"
Recovery == "part_000"
Variants == {Plain, Recovery}

StatsdAddrs == {"", "statsd.server:5000", "localhost:8125"}
AppNames == {"", "yourappname", "otherapp"}
ServerSinks == {"", "127.0.0.1:5020", ":5020"}
\* The configurations the server is run under when requests are modelled:
\* <<statsd, appname, serversink, NewStatsDSink succeeds>>.
ServedConfigs ==
    { <<"", "", "", TRUE>>,
      <<"statsd.server:5000", "yourappname", "", FALSE>>,
      <<"statsd.server:5000", "yourappname", "127.0.0.1:5020", TRUE>> }
JobNames == {"some_route", "other_route"}

\* ------------------------------------------------------------------ constants
defaultStreamKey == "github.com/utrack/gin-health"
defaultJobKey == "github.com/utrack/gin-health|job"
StatusInternalServerError == 500

\* The pointer NewStream returns and the application hands to Health.
StreamRef == "*health.Stream"
NoJob == [Stream |-> "nil", JobName |-> ""]

\* What a handler panics with: an error, or a value that is no error (a string,
\* as c.MustGet's). "none" is no panic at all.
NoPanic == "none"
PanicValues == {"error", "string"}
TypeAssertionPanic == "interface conversion: not an error"

\* ------------------------------------------------------------------ gocraft/health, gin
EmptyStream == [sinks |-> <<>>, events |-> <<>>]

\* stream.AddSink(sink)
AddSink(s, sink) == [s EXCEPT !.sinks = Append(@, sink)]

\* stream.EventErr(name, err): the event goes to the sinks attached right now.
EventErr(s, name, uri, err) ==
    [s EXCEPT !.events = Append(@, [name |-> name, uri |-> uri, err |-> err, to |-> s.sinks])]

NoKeys == [k \in {} |-> 0]

\* c.Set(key, value)
Set(c, key, value) ==
    [c EXCEPT !.Keys = [k \in (DOMAIN @) \cup {key} |-> IF k = key THEN value ELSE @[k]]]

Uri(r) == IF r = 1 THEN "/some" ELSE IF r = 2 THEN "/other" ELSE "/more"

NewContext(r) == [Keys |-> NoKeys, Status |-> 200, RequestURI |-> Uri(r)]

\* ------------------------------------------------------------------ NewStream (src/ghealth.go)
\* What a call of NewStream has done so far: the stream it builds, the calls of
\* health.NewStatsDSink and of sink.StartServer it made, the lines it printed.
NewStreamStart ==
    [stream |-> EmptyStream, statsdCalls |-> <<>>, started |-> <<>>, stdout |-> <<>>]

\* Mutant: the error event is emitted before the stdout sink is attached.
StatsdFailedEventFirst(n) ==
    LET a == [n EXCEPT !.stream = EventErr(@, "new_statsd_sink", "", "error")]
    IN  [a EXCEPT !.stdout = Append(@, "HEALTH: Adding stdout health sink..."),
                  !.stream = AddSink(@, "WriterSink")]

\* NewStatsDSink failed: the stdout sink, then the error event.
StatsdFailed(n) ==
    LET a == [n EXCEPT !.stdout = Append(@, "HEALTH: Adding stdout health sink..."),
                       !.stream = AddSink(@, "WriterSink")]
    IN  [a EXCEPT !.stream = EventErr(@, "new_statsd_sink", "", "error")]

\* Mutant: the stdout sink is attached beside the statsd sink.
StatsdAddedBoth(n) ==
    [n EXCEPT !.stdout = Append(@, "HEALTH: Adding statsd health sink..."),
              !.stream = AddSink(AddSink(@, "WriterSink"), "StatsDSink")]

\* NewStatsDSink succeeded.
StatsdAdded(n) ==
    [n EXCEPT !.stdout = Append(@, "HEALTH: Adding statsd health sink..."),
              !.stream = AddSink(@, "StatsDSink")]

\* No statsd address.
StdoutOnly(n) ==
    [n EXCEPT !.stdout = Append(@, "HEALTH: Adding stdout health sink..."),
              !.stream = AddSink(@, "WriterSink")]

\* Mutant: the test of the statsd address is lost; NewStatsDSink is always called.
StatsdBranchAlwaysDial(n, statsd, appname, dialOk) ==
    LET d == [n EXCEPT !.statsdCalls = Append(@, <<statsd, appname>>)]
    IN  IF ~dialOk THEN StatsdFailed(d) ELSE StatsdAdded(d)

\* if statsd != "" { ... } else { ... }
StatsdBranch(n, statsd, appname, dialOk) ==
    IF statsd # ""
    THEN LET d == [n EXCEPT !.statsdCalls = Append(@, <<statsd, appname>>)]
         IN  IF ~dialOk THEN StatsdFailed(d) ELSE StatsdAdded(d)
    ELSE StdoutOnly(n)

\* Mutant: the JSON sink replaces the sinks attached before it.
JsonBranchExclusive(n, serversink) ==
    IF serversink # ""
    THEN [n EXCEPT !.stream = [@ EXCEPT !.sinks = <<"JsonPollingSink">>],
                   !.started = Append(@, serversink),
                   !.stdout = Append(@, "HEALTH: Adding json health sink...")]
    ELSE n

\* Mutant: the JSON sink is attached and its server never started.
JsonBranchNoStart(n, serversink) ==
    IF serversink # ""
    THEN [n EXCEPT !.stream = AddSink(@, "JsonPollingSink"),
                   !.stdout = Append(@, "HEALTH: Adding json health sink...")]
    ELSE n

\* if serversink != "" { ... }
JsonBranch(n, serversink) ==
    IF serversink # ""
    THEN [n EXCEPT !.stream = AddSink(@, "JsonPollingSink"),
                   !.started = Append(@, serversink),
                   !.stdout = Append(@, "HEALTH: Adding json health sink...")]
    ELSE n

NewStream(statsd, appname, serversink, dialOk) ==
    JsonBranch(StatsdBranch(NewStreamStart, statsd, appname, dialOk), serversink)

\* ------------------------------------------------------------------ NewStream (src/unnamed/part_000)
NewStreamStartR ==
    [stream |-> EmptyStream, statsdCalls |-> <<>>, started |-> <<>>, stdout |-> <<>>]

StatsdBranchR(n, statsd, appname, dialOk) ==
    IF statsd # ""
    THEN LET d == [n EXCEPT !.statsdCalls = Append(@, <<statsd, appname>>)]
         IN  IF ~dialOk
             THEN LET a == [d EXCEPT !.stdout = Append(@, "HEALTH: Adding stdout health sink..."),
                                     !.stream = AddSink(@, "WriterSink")]
                  IN  [a EXCEPT !.stream = EventErr(@, "new_statsd_sink", "", "error")]
             ELSE [d EXCEPT !.stdout = Append(@, "HEALTH: Adding statsd health sink..."),
                            !.stream = AddSink(@, "StatsDSink")]
    ELSE [n EXCEPT !.stdout = Append(@, "HEALTH: Adding stdout health sink..."),
                   !.stream = AddSink(@, "WriterSink")]

JsonBranchR(n, serversink) ==
    IF serversink # ""
    THEN [n EXCEPT !.stream = AddSink(@, "JsonPollingSink"),
                   !.started = Append(@, serversink),
                   !.stdout = Append(@, "HEALTH: Adding json health sink...")]
    ELSE n

NewStreamR(statsd, appname, serversink, dialOk) ==
    JsonBranchR(StatsdBranchR(NewStreamStartR, statsd, appname, dialOk), serversink)

\* ------------------------------------------------------------------ Health, Job, TimeSince (src/ghealth.go)
\* Mutant: c.Next() without the c.Set before it.
HealthNoSet(c, streamRef) == c

\* The handler Health(stream) returns, up to its c.Next().
Health(c, streamRef) == Set(c, defaultStreamKey, streamRef)

\* The handler has no deferred function: what its c.Next() raised leaves it as
\* it came, the context, the stream and the response untouched.
HealthUnwind(c, s, raised) == [c |-> c, stream |-> s, panic |-> raised]

\* Mutant: c.Get in place of c.MustGet, and the timestamp stored first.
JobGet(c, name, now) ==
    [panic |-> NoPanic,
     c |-> Set(c, defaultJobKey, now),
     job |-> [Stream |-> IF defaultStreamKey \in DOMAIN c.Keys
                         THEN c.Keys[defaultStreamKey] ELSE "nil",
              JobName |-> name]]

\* Mutant: the timestamp is stored only when the key is not set yet.
JobKeepFirst(c, name, now) ==
    IF defaultStreamKey \notin DOMAIN c.Keys
    THEN [panic |-> "string", c |-> c, job |-> NoJob]
    ELSE [panic |-> NoPanic,
          c |-> IF defaultJobKey \in DOMAIN c.Keys THEN c ELSE Set(c, defaultJobKey, now),
          job |-> [Stream |-> c.Keys[defaultStreamKey], JobName |-> name]]

\* c.MustGet panics (with a string) when the key is missing; nothing after it runs.
Job(c, name, now) ==
    IF defaultStreamKey \notin DOMAIN c.Keys
    THEN [panic |-> "string", c |-> c, job |-> NoJob]
    ELSE [panic |-> NoPanic,
          c |-> Set(c, defaultJobKey, now),
          job |-> [Stream |-> c.Keys[defaultStreamKey], JobName |-> name]]

\* time.Since(t).Nanoseconds(), the clock reading now.
TimeSince(t, now) == now - t

\* ------------------------------------------------------------------ Health, Job, TimeSince (src/unnamed/part_000)
HealthR(c, streamRef) == Set(c, defaultStreamKey, streamRef)

\* recover() in the deferred function: nil when nothing was raised.
Recovered(raised) == IF raised = NoPanic THEN "nil" ELSE raised

\* Mutant: WriteHeader outside the test of rval.
HealthDeferredRAlways500(c, s, rval) ==
    IF rval # "nil"
    THEN IF rval = "error"
         THEN [c |-> [c EXCEPT !.Status = StatusInternalServerError],
               stream |-> EventErr(s, "Panic at", c.RequestURI, rval),
               panic |-> NoPanic]
         ELSE [c |-> c, stream |-> s, panic |-> TypeAssertionPanic]
    ELSE [c |-> [c EXCEPT !.Status = StatusInternalServerError], stream |-> s, panic |-> NoPanic]

\* The deferred function, run when the handler returns or unwinds. The arguments
\* of stream.EventErr are evaluated before it is called: rval.(error) on a value
\* that is no error panics anew, before any event and before WriteHeader.
HealthDeferredR(c, s, rval) ==
    IF rval # "nil"
    THEN IF rval = "error"
         THEN [c |-> [c EXCEPT !.Status = StatusInternalServerError],
               stream |-> EventErr(s, "Panic at", c.RequestURI, rval),
               panic |-> NoPanic]
         ELSE [c |-> c, stream |-> s, panic |-> TypeAssertionPanic]
    ELSE [c |-> c, stream |-> s, panic |-> NoPanic]

HealthUnwindR(c, s, raised) == HealthDeferredR(c, s, Recovered(raised))

JobR(c, name, now) ==
    IF defaultStreamKey \notin DOMAIN c.Keys
    THEN [panic |-> "string", c |-> c, job |-> NoJob]
    ELSE [panic |-> NoPanic,
          c |-> Set(c, defaultJobKey, now),
          job |-> [Stream |-> c.Keys[defaultStreamKey], JobName |-> name]]

TimeSinceR(t, now) == now - t

\* ------------------------------------------------------------------ the two copies
NewStreamOf(v, statsd, appname, serversink, dialOk) ==
    IF v = Recovery THEN NewStreamR(statsd, appname, serversink, dialOk)
                    ELSE NewStream(statsd, appname, serversink, dialOk)

HealthOf(v, c, streamRef) ==
    IF v = Recovery THEN HealthR(c, streamRef) ELSE Health(c, streamRef)

HealthUnwindOf(v, c, s, raised) ==
    IF v = Recovery THEN HealthUnwindR(c, s, raised) ELSE HealthUnwind(c, s, raised)

JobOf(v, c, name, now) ==
    IF v = Recovery THEN JobR(c, name, now) ELSE Job(c, name, now)

\* ------------------------------------------------------------------ state
\* A request: pc is "idle" (not arrived), "health" (gin is about to run the
\* Health handler), "downstream" (the handlers after it run), "done" (the chain
\* returned) or "panicked" (a panic left the chain). mw: Health is installed on
\* its route. c: its gin.Context. frame: the locals of the running handler, gone
\* when the chain ends: job, the result of its last call of Job; called, lastT,
\* lastName: whether it called Job, and the clock and the name of the last call.
\* raised: what the handlers behind Health raised, and raisedBy whether Job or
\* the handler's own code did; panicOut: what left the chain.
NoFrame == [job |-> NoJob, called |-> FALSE, lastT |-> 0, lastName |-> ""]

NewRequest(r) ==
    [pc |-> "idle", mw |-> FALSE, c |-> NewContext(r), frame |-> NoFrame,
     raised |-> NoPanic, raisedBy |-> "", panicOut |-> NoPanic]

Init ==
    /\ phase = "init"
    /\ args = [statsd |-> "", appname |-> "", serversink |-> "", dial |-> "not called"]
    /\ stream = [v \in Variants |-> EmptyStream]
    /\ io = [v \in Variants |-> [statsdCalls |-> <<>>, started |-> <<>>, stdout |-> <<>>]]
    /\ listener = [v \in Variants |-> "none"]
    /\ rq = [v \in Variants |-> [r \in Reqs |-> NewRequest(r)]]

\* The handler chain of request q ends, having raised `raised` (NoPanic: it
\* returned): through Health when the route has it. The handler's frame is gone.
Finish(v, q, s, raised, by) ==
    LET out == IF q.mw THEN HealthUnwindOf(v, q.c, s, raised)
                       ELSE [c |-> q.c, stream |-> s, panic |-> raised]
    IN  [q |-> [q EXCEPT !.c = out.c, !.frame = NoFrame,
                         !.raised = raised, !.raisedBy = by, !.panicOut = out.panic,
                         !.pc = IF out.panic = NoPanic THEN "done" ELSE "panicked"],
         stream |-> out.stream]

\* ------------------------------------------------------------------ actions
\* main calls NewStream; health.NewStatsDSink succeeds or not.
NewStreamCall(statsd, appname, serversink, dialOk) ==
    /\ phase = "init"
    /\ statsd = "" => dialOk
    /\ phase' = "serving"
    /\ args' = [statsd |-> statsd, appname |-> appname, serversink |-> serversink,
                dial |-> IF statsd = "" THEN "not called"
                         ELSE IF dialOk THEN "ok" ELSE "failed"]
    /\ stream' = [v \in Variants |-> NewStreamOf(v, statsd, appname, serversink, dialOk).stream]
    /\ io' = [v \in Variants |->
                LET n == NewStreamOf(v, statsd, appname, serversink, dialOk)
                IN  [statsdCalls |-> n.statsdCalls, started |-> n.started, stdout |-> n.stdout]]
    /\ listener' = [v \in Variants |->
                LET n == NewStreamOf(v, statsd, appname, serversink, dialOk)
                IN  IF n.started # <<>> THEN "starting" ELSE "none"]
    /\ UNCHANGED rq

\* sink.StartServer(addr) is `go http.ListenAndServe(addr, sink)`: the goroutine
\* binds the address, or fails to, some time after StartServer returned.
ListenAndServe(ok) ==
    /\ \E v \in Variants : listener[v] = "starting"
    /\ listener' = [v \in Variants |->
                      IF listener[v] = "starting"
                      THEN (IF ok THEN "listening" ELSE "failed")
                      ELSE listener[v]]
    /\ UNCHANGED <<phase, args, stream, io, rq>>

\* A request arrives, on a route with Health installed (router.Use) or without.
RequestArrive(r, mw) ==
    /\ phase = "serving"
    /\ \A v \in Variants : rq[v][r].pc = "idle"
    /\ rq' = [v \in Variants |->
                [rq[v] EXCEPT ![r] = [@ EXCEPT !.mw = mw,
                                               !.pc = IF mw THEN "health" ELSE "downstream"]]]
    /\ UNCHANGED <<phase, args, stream, io, listener>>

\* gin runs the Health handler: c.Set, then c.Next() enters the handlers behind it.
HealthHandler(r) ==
    /\ \E v \in Variants : rq[v][r].pc = "health"
    /\ rq' = [v \in Variants |->
                IF rq[v][r].pc = "health"
                THEN [rq[v] EXCEPT ![r] = [@ EXCEPT !.c = HealthOf(v, @, StreamRef),
                                                    !.pc = "downstream"]]
                ELSE rq[v]]
    /\ UNCHANGED <<phase, args, stream, io, listener>>

\* A handler behind Health calls Job(c, name); time.Now() reads now.
DownstreamJob(r, name, now) ==
    /\ \E v \in Variants : rq[v][r].pc = "downstream"
    /\ LET res(v) == JobOf(v, rq[v][r].c, name, now)
           called(v) == [rq[v][r] EXCEPT
                            !.c = res(v).c,
                            !.frame = [job |-> IF res(v).panic = NoPanic THEN res(v).job ELSE @.job,
                                       called |-> TRUE, lastT |-> now, lastName |-> name]]
           nxt(v) == IF rq[v][r].pc # "downstream"
                     THEN [q |-> rq[v][r], stream |-> stream[v]]
                     ELSE IF res(v).panic # NoPanic
                          THEN Finish(v, called(v), stream[v], res(v).panic, "Job")
                          ELSE [q |-> called(v), stream |-> stream[v]]
       IN  /\ rq' = [v \in Variants |-> [rq[v] EXCEPT ![r] = nxt(v).q]]
           /\ stream' = [v \in Variants |-> nxt(v).stream]
    /\ UNCHANGED <<phase, args, io, listener>>

\* A handler behind Health panics with value val.
DownstreamPanic(r, val) ==
    /\ \E v \in Variants : rq[v][r].pc = "downstream"
    /\ LET nxt(v) == IF rq[v][r].pc # "downstream"
                     THEN [q |-> rq[v][r], stream |-> stream[v]]
                     ELSE Finish(v, rq[v][r], stream[v], val, "handler")
       IN  /\ rq' = [v \in Variants |-> [rq[v] EXCEPT ![r] = nxt(v).q]]
           /\ stream' = [v \in Variants |-> nxt(v).stream]
    /\ UNCHANGED <<phase, args, io, listener>>

\* The handlers behind Health return.
DownstreamReturn(r) ==
    /\ \E v \in Variants : rq[v][r].pc = "downstream"
    /\ LET nxt(v) == IF rq[v][r].pc # "downstream"
                     THEN [q |-> rq[v][r], stream |-> stream[v]]
                     ELSE Finish(v, rq[v][r], stream[v], NoPanic, "")
       IN  /\ rq' = [v \in Variants |-> [rq[v] EXCEPT ![r] = nxt(v).q]]
           /\ stream' = [v \in Variants |-> nxt(v).stream]
    /\ UNCHANGED <<phase, args, io, listener>>

\* The server: configured once, then serving requests concurrently.
Next ==
    \/ \E cfg \in ServedConfigs : NewStreamCall(cfg[1], cfg[2], cfg[3], cfg[4])
    \/ \E ok \in BOOLEAN : ListenAndServe(ok)
    \/ \E r \in Reqs, mw \in BOOLEAN : RequestArrive(r, mw)
    \/ \E r \in Reqs : HealthHandler(r)
    \/ \E r \in Reqs, name \in JobNames, now \in Times : DownstreamJob(r, name, now)
    \/ \E r \in Reqs, val \in PanicValues : DownstreamPanic(r, val)
    \/ \E r \in Reqs : DownstreamReturn(r)

Spec == Init /\ [][Next]_vars

\* Configuration alone, over every combination of NewStream's arguments.
NextNewStream ==
    \/ \E statsd \in StatsdAddrs, appname \in AppNames, serversink \in ServerSinks,
          dialOk \in BOOLEAN : NewStreamCall(statsd, appname, serversink, dialOk)
    \/ \E ok \in BOOLEAN : ListenAndServe(ok)

SpecNewStream == Init /\ [][NextNewStream]_vars

\* ------------------------------------------------------------------ NewStream: C1 .. C5
Served == phase = "serving"

\* The sinks of kind k attached to the stream of copy v.
SinksOf(v, k) == SelectSeq(stream[v].sinks, LAMBDA x : x = k)

\* The stream's sinks other than the JSON polling sink.
MainSinks(v) == SelectSeq(stream[v].sinks, LAMBDA x : x # "JsonPollingSink")

\* The events NewStream emitted.
ConfigEvents(v) == SelectSeq(stream[v].events, LAMBDA e : e.name = "new_statsd_sink")

\* The events the Health handler emitted for request r.
PanicEvents(v, r) ==
    SelectSeq(stream[v].events, LAMBDA e : e.name = "Panic at" /\ e.uri = Uri(r))

\* C1: when NewStream is called with an empty statsd address, whatever appname
\* and serversink, the stdout writer sink is attached, no StatsD sink is, and
\* health.NewStatsDSink is never called.
C1_EmptyStatsdConsoleOnly ==
    (Served /\ args.statsd = "") =>
        \A v \in Variants :
            /\ MainSinks(v) = <<"WriterSink">>
            /\ SinksOf(v, "StatsDSink") = <<>>
            /\ io[v].statsdCalls = <<>>

C1_Witness ==
    /\ Served /\ args.statsd = "" /\ args.appname # "" /\ args.serversink # ""
    /\ Len(stream[Plain].sinks) = 2

\* C2: when the statsd address is not empty and health.NewStatsDSink fails, the
\* stdout sink is attached and exactly one error event, "new_statsd_sink", is
\* emitted, at a moment when the stdout sink is the only sink of the stream
\* (after it is attached, before any JSON sink is).
C2_FailedStatsdFallback ==
    (Served /\ args.dial = "failed") =>
        \A v \in Variants :
            /\ SinksOf(v, "WriterSink") = <<"WriterSink">>
            /\ SinksOf(v, "StatsDSink") = <<>>
            /\ Len(ConfigEvents(v)) = 1
            /\ ConfigEvents(v)[1].err = "error"
            /\ ConfigEvents(v)[1].to = <<"WriterSink">>
            /\ io[v].statsdCalls = <<<<args.statsd, args.appname>>>>

C2_Witness ==
    /\ Served /\ args.dial = "failed" /\ args.serversink # ""
    /\ stream[Recovery].sinks = <<"WriterSink", "JsonPollingSink">>
    /\ Len(stream[Recovery].events) = 1

\* C3: when the statsd address is not empty and health.NewStatsDSink succeeds,
\* the StatsD sink is attached, no stdout sink is, and no error event is emitted
\* during configuration.
C3_StatsdOnly ==
    (Served /\ args.dial = "ok") =>
        \A v \in Variants :
            /\ MainSinks(v) = <<"StatsDSink">>
            /\ SinksOf(v, "WriterSink") = <<>>
            /\ stream[v].events = <<>>
            /\ io[v].statsdCalls = <<<<args.statsd, args.appname>>>>

C3_Witness ==
    /\ Served /\ args.dial = "ok" /\ args.serversink = ""
    /\ stream[Plain].sinks = <<"StatsDSink">>

\* C4: the JSON polling sink is additive: the stream NewStream returns holds
\* exactly one sink among stdout and StatsD, and exactly one JSON polling sink
\* if and only if serversink is not empty; so it holds 1 sink when serversink is
\* empty and 2 when it is not, never none.
C4_JsonSinkAdditive ==
    Served =>
        \A v \in Variants :
            /\ Len(MainSinks(v)) = 1
            /\ MainSinks(v)[1] \in {"WriterSink", "StatsDSink"}
            /\ Len(SinksOf(v, "JsonPollingSink")) = (IF args.serversink # "" THEN 1 ELSE 0)
            /\ Len(stream[v].sinks) = (IF args.serversink # "" THEN 2 ELSE 1)

C4_Witness ==
    /\ Served /\ args.dial = "ok" /\ args.serversink # ""
    /\ stream[Plain].sinks = <<"StatsDSink", "JsonPollingSink">>

\* C5, as claimed: for every non-empty serversink an HTTP listener is active on
\* that address at the moment NewStream returns.
C5_ListenerActiveOnReturn ==
    (Served /\ args.serversink # "") =>
        \A v \in Variants : listener[v] = "listening"

\* C5, amended: for every non-empty serversink, NewStream has called
\* sink.StartServer with that address exactly once when it returns, whatever the
\* outcome of the StatsD sink: the listener has been started, and is bound, or
\* has failed to bind, only later. With an empty serversink none is started.
C5_ServerStartedOnReturn ==
    Served =>
        \A v \in Variants :
            IF args.serversink # ""
            THEN /\ io[v].started = <<args.serversink>>
                 /\ listener[v] \in {"starting", "listening", "failed"}
            ELSE /\ io[v].started = <<>>
                 /\ listener[v] = "none"

C5_Witness ==
    /\ Served /\ args.serversink # "" /\ args.dial = "failed"
    /\ listener[Plain] = "starting"
    /\ listener[Recovery] = "starting"

\* ------------------------------------------------------------------ requests: C6 .. C10
HasStream(c) ==
    /\ defaultStreamKey \in DOMAIN c.Keys
    /\ c.Keys[defaultStreamKey] = StreamRef

\* C6: in both copies, for every request on a route with Health installed,
\* requests running concurrently included, the stream is in the request's
\* context under defaultStreamKey whenever a handler behind Health runs.
C6_StreamSetBeforeDownstream ==
    \A v \in Variants : \A r \in Reqs :
        (rq[v][r].mw /\ rq[v][r].pc = "downstream") => HasStream(rq[v][r].c)

C6_Witness ==
    \E r1 \in Reqs : \E r2 \in Reqs \ {r1} :
        \A v \in Variants :
            /\ rq[v][r1].mw /\ rq[v][r1].pc = "downstream"
            /\ rq[v][r2].mw /\ rq[v][r2].pc = "downstream"
            /\ rq[v][r1].frame.called

\* C7: on a context with no stream under defaultStreamKey (a route without
\* Health), a call of Job panics: it never returns to the handler, with a Job
\* or without, and the context is left as it was, with no timestamp under
\* defaultJobKey.
C7_JobWithoutStreamPanics ==
    \A v \in Variants : \A r \in Reqs :
        ~rq[v][r].mw =>
            /\ rq[v][r].c.Keys = NoKeys
            /\ ~rq[v][r].frame.called
            /\ rq[v][r].frame.job = NoJob
            /\ rq[v][r].raisedBy = "Job" =>
                  (rq[v][r].pc = "panicked" /\ rq[v][r].panicOut = "string")

C7_Witness ==
    \E r \in Reqs : \A v \in Variants :
        /\ ~rq[v][r].mw
        /\ rq[v][r].raisedBy = "Job"
        /\ rq[v][r].pc = "panicked"

\* C8: on a context that holds the stream, a call of Job returns a Job of that
\* stream with the name given, and leaves the time of the call under
\* defaultJobKey and the stream under defaultStreamKey; after any number of
\* calls the key holds the time of the last one.
C8_JobOnStream ==
    \A v \in Variants : \A r \in Reqs :
        (rq[v][r].mw /\ rq[v][r].frame.called) =>
            /\ rq[v][r].pc = "downstream"
            /\ rq[v][r].frame.job # NoJob
            /\ rq[v][r].frame.job.Stream = StreamRef
            /\ rq[v][r].frame.job.JobName = rq[v][r].frame.lastName
            /\ HasStream(rq[v][r].c)
            /\ defaultJobKey \in DOMAIN rq[v][r].c.Keys
            /\ rq[v][r].c.Keys[defaultJobKey] = rq[v][r].frame.lastT

C8_Witness ==
    \E r \in Reqs : \A v \in Variants :
        /\ rq[v][r].mw /\ rq[v][r].frame.called
        /\ rq[v][r].frame.job = [Stream |-> StreamRef, JobName |-> "other_route"]
        /\ rq[v][r].c.Keys[defaultJobKey] = MaxTime

\* C9, as claimed: in the copy with recovery, whatever a handler behind Health
\* panics with, Health catches it, emits exactly one error event with the
\* request's URI, sets the status to 500, and the panic goes no further.
C9_EveryPanicRecovered ==
    \A r \in Reqs :
        (rq[Recovery][r].mw /\ rq[Recovery][r].raised # NoPanic) =>
            /\ rq[Recovery][r].pc = "done"
            /\ rq[Recovery][r].panicOut = NoPanic
            /\ rq[Recovery][r].c.Status = StatusInternalServerError
            /\ Len(PanicEvents(Recovery, r)) = 1

\* C10: the two copies differ in recovery only. NewStream, Job and TimeSince
\* give the same results on the same arguments; the two copies are configured
\* alike; and a request whose handlers have not panicked has, in both, the same
\* context, the same response status and the same place in its chain, and no
\* event of its own on either stream.
C10_CopiesDifferInRecoveryOnly ==
    /\ phase = "init" =>
          /\ \A statsd \in StatsdAddrs, appname \in AppNames, serversink \in ServerSinks,
                dialOk \in BOOLEAN :
                NewStream(statsd, appname, serversink, dialOk)
                    = NewStreamR(statsd, appname, serversink, dialOk)
          /\ \A t \in Times, now \in Times : TimeSince(t, now) = TimeSinceR(t, now)
    /\ stream[Plain].sinks = stream[Recovery].sinks
    /\ ConfigEvents(Plain) = ConfigEvents(Recovery)
    /\ io[Plain] = io[Recovery]
    /\ listener[Plain] = listener[Recovery]
    /\ \A r \in Reqs :
          rq[Plain][r].raised = NoPanic =>
              /\ rq[Plain][r] = rq[Recovery][r]
              /\ PanicEvents(Plain, r) = <<>>
              /\ PanicEvents(Recovery, r) = <<>>
              /\ \A name \in JobNames, now \in Times :
                    Job(rq[Plain][r].c, name, now) = JobR(rq[Recovery][r].c, name, now)

C10_Witness ==
    \E r1 \in Reqs : \E r2 \in Reqs \ {r1} :
        /\ rq[Plain][r1].pc = "done" /\ rq[Plain][r1].mw
        /\ rq[Plain][r1].raised = NoPanic
        /\ defaultJobKey \in DOMAIN rq[Plain][r1].c.Keys
        /\ rq[Plain][r2].pc = "panicked"
        /\ rq[Recovery][r2].pc = "done"
        /\ rq[Recovery][r2].c.Status = StatusInternalServerError

====
